---- MODULE Spec2Model ----
(***************************************************************************)
(* TeamVidya: the profile recomputation and risk classification engine.    *)
(*                                                                         *)
(* Two stores (the daily_attendance table and the students table), the     *)
(* two attendance-write endpoints of app.py with the recompute cycle they  *)
(* trigger, and the two seed paths (app.run_initial_setup and the desktop  *)
(* tool's DataUploaderApp.run_setup_process).                              *)
(***************************************************************************)
EXTENDS Integers, FiniteSets, Sequences, Bags, TLC

VARIABLES
    daily_attendance,       \* the daily_attendance table: a bag of event rows
    students,               \* the students table: student_id -> profile row
    seed_pc,                \* position of the seed run (either seed path)
    seed_path,              \* which seed path runs
    files,                  \* the local data files the seed run loaded
    seed_i,                 \* loop index of the chunked historical upload
    seed_model,             \* the trained model: the labels it can predict
    seedCount,              \* seed runs started so far
    last_write,             \* history: (student_id, date) -> status last written
    pc,                     \* per worker: position in the request handler
    endpoint,               \* per worker: the endpoint being served
    records,                \* per worker: the attendance records of the request
    attendance_summary_df,  \* per worker: the summary the cycle computed
    students_df,            \* per worker: the merged, classified frame of the cycle
    cycle_result,           \* per worker: what update_student_profiles returned
    response,               \* per worker: the response of the last request
    reqCount,               \* requests received so far
    event_snapshot,         \* history: the event rows the cycle read
    overwritten,            \* history: keys others wrote after the worker's upsert
    read_failed,            \* history: a store read of the cycle failed
    dirty,                  \* history: a store changed since the last cycle's upsert
    row,                    \* the feature vector handed to calculate_risk
    risk_out,               \* what calculate_risk returned for row
    summary_out,            \* what calculate_overall_attendance returned
    on_disk,                \* ml_model: the files that exist on disk
    saved_model,            \* ml_model: the content of the two artifacts
    training,               \* ml_model: the content of the training data files
    student_data_df,        \* ml_model: the frame handed to load_model_and_predict
    ml_pc,                  \* ml_model: position in load_model_and_predict
    train_result,           \* ml_model: what train_and_save_model returned
    predictions,            \* ml_model: what load_model_and_predict returned
    ml_error                \* ml_model: the exception load_model_and_predict raised

storeVars == <<daily_attendance, students, last_write>>
reqVars == <<pc, endpoint, records, attendance_summary_df, students_df,
             cycle_result, response, reqCount, event_snapshot, overwritten,
             read_failed>>
seedVars == <<seed_pc, seed_path, files, seed_i, seed_model, seedCount>>
mlVars == <<on_disk, saved_model, training, student_data_df, ml_pc,
            train_result, predictions, ml_error>>
pureVars == <<row, risk_out, summary_out, mlVars>>
vars == <<daily_attendance, students, last_write, pc, endpoint, records,
          attendance_summary_df, students_df, cycle_result, response,
          reqCount, event_snapshot, overwritten, read_failed, dirty, seed_pc,
          seed_path, files, seed_i, seed_model, seedCount, row, risk_out,
          summary_out, on_disk, saved_model, training, student_data_df, ml_pc,
          train_result, predictions, ml_error>>

----------------------------------------------------------------------------
(* Bounds of the model *)

MaxPct == 100
MaxScore == 100
MaxAttempts == 5
AggMaxEvents == 8
MaxDate == 2
MaxSeedDate == 3
MaxSeeds == 1
MaxReseeds == 2
MaxMlEvents == 1
MaxMlRows == 2
MaxLiveHist == 0
MaxSeqHist == 1
MaxBatch == 2
MaxLiveBatch == 1
MaxRequests == 2
MaxEdits == 1

(* Values *)

Students == {1, 2}
Procs == {1, 2}
NoResponse == [status |-> "none", code |-> 0]
NaN == -1          \* a missing value (pandas NaN / SQL NULL) in a numeric column
NoRisk == "none"

----------------------------------------------------------------------------
(* Numeric helpers *)

\* A comparison with NaN is False, as in pandas/numpy.
Lt(a, b) == a # NaN /\ a < b
Gt(a, b) == a # NaN /\ a > b

\* round() of numpy/pandas on the ratio n/d: to nearest, ties to even.
Round(n, d) ==
    LET q == n \div d
        r == n % d
    IN  IF 2 * r < d THEN q
        ELSE IF 2 * r > d THEN q + 1
        ELSE IF q % 2 = 0 THEN q ELSE q + 1

\* astype(int) on a non-negative float: truncation.
Trunc(n, d) == n \div d

----------------------------------------------------------------------------
(* Risk Classifier: app.calculate_risk *)

calculate_risk_swapped(r) ==
    IF Lt(r.attendance_percentage, 75) \/ Lt(r.average_score, 60)
          \/ Gt(r.exam_attempts, 3) THEN "Medium"
    ELSE IF Lt(r.attendance_percentage, 70) /\ Lt(r.average_score, 50) THEN "High"
    ELSE "Low"

calculate_risk(r) ==
    IF Lt(r.attendance_percentage, 70) /\ Lt(r.average_score, 50) THEN "High"
    ELSE IF Lt(r.attendance_percentage, 75) \/ Lt(r.average_score, 60)
          \/ Gt(r.exam_attempts, 3) THEN "Medium"
    ELSE "Low"

----------------------------------------------------------------------------
(* Attendance Aggregator: app.calculate_overall_attendance *)

\* The rows of the bag B that belong to student s, as a bag.
GroupOf(B, s) ==
    [e \in {x \in BagToSet(B) : x.student_id = s} |-> CopiesIn(e, B)]

\* agg(total='count')
TotalOf(B, s) == BagCardinality(GroupOf(B, s))

\* agg(present=lambda x: (x == 'Present').sum())
PresentOf(B, s) ==
    BagCardinality([e \in {x \in BagToSet(B) :
                              x.student_id = s /\ x.status = "Present"}
                       |-> CopiesIn(e, B)])

\* df.groupby('student_id'): the ids that occur in the data
GroupKeys(B) == {e.student_id : e \in BagToSet(B)}

SummaryTruncated(B) ==
    {[student_id |-> s,
      attendance_percentage |-> Trunc(100 * PresentOf(B, s), TotalOf(B, s))]
        : s \in GroupKeys(B)}

\* The summary frame computed from the event rows B (response.data).
Summary(B) ==
    {[student_id |-> s,
      attendance_percentage |-> Round(100 * PresentOf(B, s), TotalOf(B, s))]
        : s \in GroupKeys(B)}

calculate_overall_attendance(B) ==
    IF B = EmptyBag THEN {} ELSE Summary(B)

----------------------------------------------------------------------------
(* The daily_attendance table *)

Dates == 1..MaxDate
SeedDates == 1..MaxSeedDate
AllDates == Dates \cup SeedDates
Statuses == {"Present", "Absent"}
Keys == Students \X AllDates
NoStatus == "none"

Key(e) == <<e.student_id, e.date>>

Range(sq) == {sq[i] : i \in DOMAIN sq}

\* How many times each row occurs in a list of rows.
BagOfSeq(sq) == [e \in Range(sq) |-> Cardinality({i \in DOMAIN sq : sq[i] = e})]

\* Two rows of one upsert batch hit the same (student_id, date): the
\* statement is rejected as a whole.
UpsertConflict(recs) == \E a \in recs, b \in recs : a # b /\ Key(a) = Key(b)

UpsertEventsAppend(B, recs) == B (+) SetToBag(recs)

UpsertEventsIgnore(B, recs) ==
    B (+) SetToBag({r \in recs : \A e \in BagToSet(B) : Key(e) # Key(r)})

\* upsert(recs, on_conflict='student_id,date'): a row with the key of a
\* record is replaced by the record, every other record is inserted.
UpsertEvents(B, recs) ==
    LET keep == {e \in BagToSet(B) : \A r \in recs : Key(e) # Key(r)}
    IN  [e \in keep \cup recs |-> IF e \in recs THEN 1 ELSE CopiesIn(e, B)]

\* insert(rows) against the unique (student_id, date) key that the
\* on_conflict target of the upserts names: a duplicate key is an error.
InsertViolates(B, sq) ==
    \/ \E i \in DOMAIN sq : \E e \in BagToSet(B) : Key(e) = Key(sq[i])
    \/ \E i \in DOMAIN sq, j \in DOMAIN sq : i # j /\ Key(sq[i]) = Key(sq[j])

InsertEvents(B, sq) == B (+) BagOfSeq(sq)

\* delete().neq('student_id', 0)
DeleteEvents(B) ==
    [e \in {x \in BagToSet(B) : x.student_id = 0} |-> CopiesIn(e, B)]

\* History of the writes: the status last written for each key.
LogWrites(lw, recs) ==
    [k \in Keys |-> IF \E r \in recs : Key(r) = k
                    THEN (CHOOSE r \in recs : Key(r) = k).status
                    ELSE lw[k]]

NothingWritten == [k \in Keys |-> NoStatus]

----------------------------------------------------------------------------
(* The students table *)

Columns == {"student_id", "name", "class", "mentor_email", "guardian_email",
            "fee_status", "average_score", "exam_attempts",
            "attendance_percentage", "risk_level"}
NumericColumns == {"student_id", "average_score", "exam_attempts",
                   "attendance_percentage"}
Null(c) == IF c \in NumericColumns THEN NaN ELSE "NULL"

RowFor(rows, s) == CHOOSE r \in rows : r.student_id = s

UpsertFirstRowOnly(tbl, rows) ==
    IF rows = {} THEN tbl
    ELSE LET s == CHOOSE x \in {r.student_id : r \in rows} :
                      \A y \in {r.student_id : r \in rows} : x <= y
             r == RowFor(rows, s)
         IN  [x \in DOMAIN tbl \cup {s} |->
                IF x = s
                THEN [c \in Columns |->
                        IF c \in DOMAIN r THEN r[c]
                        ELSE IF s \in DOMAIN tbl THEN tbl[s][c] ELSE Null(c)]
                ELSE tbl[x]]

\* upsert(rows, on_conflict='student_id'): one statement; a row of the
\* payload overwrites the columns it carries and leaves the others, and is
\* inserted (other columns NULL) when the id is not stored yet.
Upsert(tbl, rows) ==
    [s \in DOMAIN tbl \cup {r.student_id : r \in rows} |->
        IF \E r \in rows : r.student_id = s
        THEN LET r == RowFor(rows, s)
             IN  [c \in Columns |->
                    IF c \in DOMAIN r THEN r[c]
                    ELSE IF s \in DOMAIN tbl THEN tbl[s][c] ELSE Null(c)]
        ELSE tbl[s]]

\* fillna(v)
FillNa(x, v) == IF x = NaN THEN v ELSE x

\* The attendance_percentage a left merge with the summary gives student s.
MergedAttendance(summary, s) ==
    IF \E r \in summary : r.student_id = s
    THEN RowFor(summary, s).attendance_percentage
    ELSE NaN

----------------------------------------------------------------------------
(* The seed paths: app.run_initial_setup and                               *)
(* setup_tool.DataUploaderApp.run_setup_process                            *)

ChunkSize == 500

NameOf(s) == IF s = 1 THEN "Asha" ELSE "Ravi"
Mentors == {"a@x.com", "b@x.com"}

\* data/attendance.csv, the base info: one row per roster student.
BaseFile(mentor) ==
    {[student_id |-> s, name |-> NameOf(s), class |-> "10A",
      mentor_email |-> mentor, guardian_email |-> "g@x.com",
      attendance_percentage |-> 0] : s \in Students}

\* data/scores.csv
ScoreRows ==
    {[average_score |-> 40, exam_attempts |-> 1, fee_status |-> "Overdue"],
     [average_score |-> 55, exam_attempts |-> 4, fee_status |-> "Paid"],
     [average_score |-> 85, exam_attempts |-> 1, fee_status |-> "Paid"]}

ScoreFiles ==
    {{[student_id |-> s, average_score |-> f[s].average_score,
       exam_attempts |-> f[s].exam_attempts, fee_status |-> f[s].fee_status]
         : s \in DOMAIN f} :
        f \in UNION {[S -> ScoreRows] : S \in SUBSET Students}}

\* data/historical_attendance.csv: t rows of student s, the first p Present.
HistRows(s, p, t) ==
    [d \in 1..t |-> [student_id |-> s, date |-> d,
                     status |-> IF d <= p THEN "Present" ELSE "Absent"]]

\* A file that repeats the key of its first row.
WithRepeat(sq) ==
    IF sq = << >> THEN sq
    ELSE Append(sq, [sq[1] EXCEPT !.status = "Absent"])

HistFiles(maxRows) ==
    {IF rep THEN WithRepeat(HistRows(1, p1, t1) \o HistRows(2, p2, t2))
            ELSE HistRows(1, p1, t1) \o HistRows(2, p2, t2) :
        <<p1, t1, p2, t2, rep>> \in
            {x \in (0..maxRows) \X (0..maxRows) \X (0..maxRows) \X (0..maxRows)
                     \X BOOLEAN : x[1] <= x[2] /\ x[3] <= x[4]}}

SeedInputs ==
    [historical : HistFiles(MaxSeedDate), base : {BaseFile("a@x.com")},
     scores : ScoreFiles]

NoFiles == [historical |-> << >>, base |-> {}, scores |-> {}]
NoModel == [labels |-> {}, classes |-> {}]

\* A column of scores.csv after the left merge on student_id.
ScoreOf(scores, s, c) ==
    IF \E r \in scores : r.student_id = s THEN RowFor(scores, s)[c] ELSE Null(c)

\* app.run_initial_setup, steps 3 and 4: the frame that is upserted.
SetupFrame(f) ==
    LET summary == Summary(BagOfSeq(f.historical))
        merged(b) ==
            [student_id |-> b.student_id, name |-> b.name, class |-> b.class,
             mentor_email |-> b.mentor_email,
             guardian_email |-> b.guardian_email,
             fee_status |-> ScoreOf(f.scores, b.student_id, "fee_status"),
             average_score |-> ScoreOf(f.scores, b.student_id, "average_score"),
             exam_attempts |->
                 FillNa(ScoreOf(f.scores, b.student_id, "exam_attempts"), 0),
             attendance_percentage |->
                 FillNa(MergedAttendance(summary, b.student_id), 0)]
    IN  {[c \in Columns |-> IF c = "risk_level" THEN calculate_risk(merged(b))
                            ELSE merged(b)[c]] : b \in f.base}

\* The unrounded percentage cast with astype(int).
ToolSummary(B) ==
    {[student_id |-> s,
      attendance_percentage |-> Trunc(100 * PresentOf(B, s), TotalOf(B, s))]
        : s \in GroupKeys(B)}

\* setup_tool.train_and_save_model: the rule on the unrounded percentage
\* p/t*100 labels the students that have both scores and events.
TrainLabel(sc, p, t) ==
    IF 100 * p < 70 * t /\ sc.average_score < 50 THEN "High"
    ELSE IF 100 * p < 75 * t \/ sc.average_score < 60 \/ sc.exam_attempts > 3
         THEN "Medium"
    ELSE "Low"

TrainingData(f) ==
    {sc \in f.scores : sc.student_id \in GroupKeys(BagOfSeq(f.historical))}

TrainedModel(f) ==
    LET B == BagOfSeq(f.historical)
    IN  [labels |-> {TrainLabel(sc, PresentOf(B, sc.student_id),
                                TotalOf(B, sc.student_id)) : sc \in TrainingData(f)},
         classes |-> {sc.fee_status : sc \in TrainingData(f)}]

\* run_setup_process before the predictions: merge and default-fill.
ToolMerged(f) ==
    LET summary == ToolSummary(BagOfSeq(f.historical))
    IN  {[student_id |-> b.student_id, name |-> b.name, class |-> b.class,
          mentor_email |-> b.mentor_email,
          guardian_email |-> b.guardian_email,
          fee_status |->
              LET v == ScoreOf(f.scores, b.student_id, "fee_status")
              IN  IF v = "NULL" THEN "Paid" ELSE v,
          average_score |->
              FillNa(ScoreOf(f.scores, b.student_id, "average_score"), 50),
          exam_attempts |->
              FillNa(ScoreOf(f.scores, b.student_id, "exam_attempts"), 1),
          attendance_percentage |->
              FillNa(MergedAttendance(summary, b.student_id), 0)] : b \in f.base}

\* encoder.transform raises on a fee_status the encoder was not fitted on.
UnseenFee(f, m) == \E r \in ToolMerged(f) : r.fee_status \notin m.classes

\* The frame that is upserted, with the model's predictions pred.
ToolFrame(f, pred) ==
    {[c \in Columns |-> IF c = "risk_level" THEN pred[r.student_id] ELSE r[c]]
        : r \in ToolMerged(f)}

SeedIdle == seed_pc \in {"start", "done", "failed"}

\* Reading the local files; F is the set of file contents considered and
\* n the number of seed runs considered.  A seed run is started while no
\* request is being served.
BeginSeed(F, n) ==
    /\ SeedIdle
    /\ \A p \in Procs : pc[p] = "idle"
    /\ seedCount < n
    /\ \E f \in F, path \in {"run_initial_setup", "run_setup_process"} :
         /\ files' = f
         /\ seed_path' = path
         /\ seed_pc' = IF path = "run_setup_process" THEN "train" ELSE "delete"
    /\ seedCount' = seedCount + 1
    /\ seed_i' = 0
    /\ seed_model' = NoModel
    /\ UNCHANGED <<storeVars, reqVars, dirty, pureVars>>

StartSeed(F) == BeginSeed(F, MaxSeeds)

\* setup_tool.py:167; fitting the tree on no training row raises.
SeedTrain ==
    /\ seed_pc = "train"
    /\ IF TrainingData(files) = {}
       THEN seed_pc' = "failed" /\ seed_model' = seed_model
       ELSE seed_pc' = "delete" /\ seed_model' = TrainedModel(files)
    /\ UNCHANGED <<storeVars, reqVars, dirty, pureVars, seed_path, files, seed_i,
                   seedCount>>

SeedDelete ==
    /\ seed_pc = "delete"
    /\ \/ /\ daily_attendance' = DeleteEvents(daily_attendance)
          /\ last_write' = NothingWritten
          /\ seed_pc' = "insert"
       \/ /\ seed_pc' = "failed"
          /\ UNCHANGED <<daily_attendance, last_write>>
    /\ seed_i' = 0
    /\ dirty' = TRUE
    /\ UNCHANGED <<students, reqVars, pureVars, seed_path, files, seed_model,
                   seedCount>>

\* for i in range(0, len(historical_df), 500): insert(historical_df[i:i+500])
SeedInsertChunk ==
    /\ seed_pc = "insert"
    /\ seed_i < Len(files.historical)
    /\ LET last == IF seed_i + ChunkSize < Len(files.historical)
                   THEN seed_i + ChunkSize ELSE Len(files.historical)
           chunk == SubSeq(files.historical, seed_i + 1, last)
       IN  \/ /\ ~InsertViolates(daily_attendance, chunk)
              /\ daily_attendance' = InsertEvents(daily_attendance, chunk)
              /\ last_write' = LogWrites(last_write, Range(chunk))
              /\ seed_i' = seed_i + ChunkSize
              /\ seed_pc' = seed_pc
           \/ /\ seed_pc' = "failed"
              /\ UNCHANGED <<daily_attendance, last_write, seed_i>>
    /\ dirty' = TRUE
    /\ UNCHANGED <<students, reqVars, pureVars, seed_path, files, seed_model,
                   seedCount>>

\* The loop is over: on to the profiles.
SeedInsertDone ==
    /\ seed_pc = "insert"
    /\ seed_i >= Len(files.historical)
    /\ seed_pc' = "profiles"
    /\ UNCHANGED <<storeVars, reqVars, dirty, pureVars, seed_path, files,
                   seed_i, seed_model, seedCount>>

\* app.py:47-64
SetupProfiles ==
    /\ seed_pc = "profiles"
    /\ seed_path = "run_initial_setup"
    /\ \/ /\ students' = Upsert(students, SetupFrame(files))
          /\ seed_pc' = "done"
       \/ /\ seed_pc' = "failed"
          /\ UNCHANGED students
    /\ dirty' = TRUE
    /\ UNCHANGED <<daily_attendance, last_write, reqVars, pureVars, seed_path,
                   files, seed_i, seed_model, seedCount>>

\* setup_tool.py:176-195
ToolProfiles ==
    /\ seed_pc = "profiles"
    /\ seed_path = "run_setup_process"
    /\ \/ /\ ~UnseenFee(files, seed_model)
          /\ \E pred \in [Students -> seed_model.labels] :
                students' = Upsert(students, ToolFrame(files, pred))
          /\ seed_pc' = "done"
       \/ /\ seed_pc' = "failed"
          /\ UNCHANGED students
    /\ dirty' = TRUE
    /\ UNCHANGED <<daily_attendance, last_write, reqVars, pureVars, seed_path,
                   files, seed_i, seed_model, seedCount>>

SeedStep ==
    \/ SeedTrain
    \/ SeedDelete
    \/ SeedInsertChunk
    \/ SeedInsertDone
    \/ SetupProfiles
    \/ ToolProfiles

\* ml_model.load_model_and_predict has not been called.
MlIdle ==
    /\ on_disk = {}
    /\ saved_model = NoModel
    /\ training = [historical |-> << >>, scores |-> {}]
    /\ student_data_df = << >>
    /\ ml_pc = "idle"
    /\ train_result = "not called"
    /\ predictions = << >>
    /\ ml_error = "none"

PureIdle ==
    /\ row = [attendance_percentage |-> 0, average_score |-> 0, exam_attempts |-> 0]
    /\ risk_out = NoRisk
    /\ summary_out = {}
    /\ MlIdle

EmptyStores ==
    /\ daily_attendance = EmptyBag
    /\ students = << >>
    /\ last_write = NothingWritten

NoRequests ==
    /\ pc = [p \in Procs |-> "idle"]
    /\ endpoint = [p \in Procs |-> "none"]
    /\ records = [p \in Procs |-> {}]
    /\ attendance_summary_df = [p \in Procs |-> {}]
    /\ students_df = [p \in Procs |-> << >>]
    /\ cycle_result = [p \in Procs |-> "none"]
    /\ response = [p \in Procs |-> NoResponse]
    /\ reqCount = 0
    /\ event_snapshot = [p \in Procs |-> EmptyBag]
    /\ overwritten = [p \in Procs |-> {}]
    /\ read_failed = [p \in Procs |-> FALSE]
    /\ dirty = FALSE

NoSeed ==
    /\ seed_pc = "start"
    /\ seed_path = "none"
    /\ files = NoFiles
    /\ seed_i = 0
    /\ seed_model = NoModel
    /\ seedCount = 0

InitSeed == EmptyStores /\ NoSeed /\ NoRequests /\ PureIdle

NextSeed == StartSeed(SeedInputs) \/ SeedStep

SpecSeed == InitSeed /\ [][NextSeed]_vars

AbsentFromScores(s) == \A r \in files.scores : r.student_id # s
AbsentFromHistory(s) ==
    \A i \in DOMAIN files.historical : files.historical[i].student_id # s

\* C5: after a seed run, a roster student absent from the score source is
\* stored with average_score 50, exam_attempts 1 and fee_status Paid, and
\* with attendance_percentage 0 when the student has no event either, on
\* both seed paths.
SeedDefaults ==
    seed_pc = "done" =>
        \A s \in DOMAIN students :
            AbsentFromScores(s) =>
                /\ students[s].average_score = 50
                /\ students[s].exam_attempts = 1
                /\ students[s].fee_status = "Paid"
                /\ AbsentFromHistory(s) => students[s].attendance_percentage = 0

----------------------------------------------------------------------------
(* The recompute cycle: app.update_student_profiles                        *)

columns_all == Columns

columns_without_risk == {"student_id", "attendance_percentage"}

columns_to_update == {"student_id", "attendance_percentage", "risk_level"}

\* students_df after the merge with the summary and fillna(0).astype(int);
\* an empty summary is not merged and the stored percentage stays.
MergeSummary(tbl, summary) ==
    [s \in DOMAIN tbl |->
        [tbl[s] EXCEPT !.attendance_percentage =
            FillNa(IF summary # {} THEN MergedAttendance(summary, s)
                   ELSE tbl[s].attendance_percentage, 0)]]

\* A column that holds None in every row is an object column: comparing
\* its values with a number raises.  and/or evaluate left to right.
AllNone(df, c) == \A s \in DOMAIN df : df[s][c] = NaN

RiskRaises(df) ==
    \E s \in DOMAIN df :
        LET r == df[s]
        IN  \/ /\ AllNone(df, "average_score")
               /\ r.attendance_percentage < 70 \/ r.attendance_percentage >= 75
            \/ /\ AllNone(df, "exam_attempts")
               /\ r.attendance_percentage >= 75
               /\ ~Lt(r.average_score, 60)

ClassifiedStale(tbl, summary) ==
    LET df == MergeSummary(tbl, summary)
    IN  [s \in DOMAIN df |-> [df[s] EXCEPT !.risk_level = calculate_risk(tbl[s])]]

ClassifiedKeepsRisk(tbl, summary) ==
    LET df == MergeSummary(tbl, summary)
    IN  [s \in DOMAIN df |->
            [df[s] EXCEPT !.risk_level =
                IF tbl[s].risk_level \in {"Low", "Medium", "High"}
                THEN tbl[s].risk_level ELSE calculate_risk(df[s])]]

\* students_df with its risk_level column (app.py:97-102).
Classified(tbl, summary) ==
    LET df == MergeSummary(tbl, summary)
    IN  [s \in DOMAIN df |-> [df[s] EXCEPT !.risk_level = calculate_risk(df[s])]]

\* data_to_upload: the frame cut down to columns_to_update (app.py:104-105).
DataToUpload(df) ==
    {[c \in columns_to_update |-> df[s][c]] : s \in DOMAIN df}

UploadFirstRowOnly(tbl, df) == UpsertFirstRowOnly(tbl, DataToUpload(df))

UploadUnlessChanged(tbl, df) ==
    Upsert(tbl, {r \in DataToUpload(df) :
                    \A c \in Columns \ columns_to_update :
                        tbl[r.student_id][c] = df[r.student_id][c]})

\* The upsert of the cycle (app.py:107): all of data_to_upload in one call.
Upload(tbl, df) == Upsert(tbl, DataToUpload(df))

----------------------------------------------------------------------------
(* The attendance-write endpoints: app.mark_attendance and                 *)
(* app.update_historical_attendance                                        *)

Today == MaxDate

Success == [status |-> "success", code |-> 200]
Error400 == [status |-> "error", code |-> 400]
Error500 == [status |-> "error", code |-> 500]

Small(S, n) == {x \in SUBSET S : Cardinality(x) <= n}

\* request.get_json() of /mark-attendance
MarkInputs(n) == Small([student_id : Students, status : Statuses], n)

\* request.get_json() of /update-historical-attendance
HistoricalInputs(n) ==
    Small([student_id : Students, date : Dates, status : Statuses], n)

KeysOf(recs) == {Key(r) : r \in recs}

\* The request of worker p wrote recs: the workers that have upserted and
\* not read yet see their keys overwritten.
NoteOverwrite(p, recs) ==
    [q \in Procs |-> IF q = p THEN {}
                     ELSE IF pc[q] = "read_events"
                          THEN overwritten[q] \cup KeysOf(recs)
                          ELSE overwritten[q]]

\* The attendance upsert of a request went through; on to the cycle.
Upserted(p, name, recs) ==
    /\ ~UpsertConflict(recs)
    /\ endpoint' = [endpoint EXCEPT ![p] = name]
    /\ daily_attendance' = UpsertEvents(daily_attendance, recs)
    /\ last_write' = LogWrites(last_write, recs)
    /\ dirty' = (dirty \/ daily_attendance' # daily_attendance)
    /\ overwritten' = NoteOverwrite(p, recs)
    /\ records' = [records EXCEPT ![p] = recs]
    /\ pc' = [pc EXCEPT ![p] = "read_events"]
    /\ response' = [response EXCEPT ![p] = NoResponse]

\* The attendance upsert raised: the handler answers 500.
UpsertFailed(p) ==
    /\ response' = [response EXCEPT ![p] = Error500]
    /\ UNCHANGED <<daily_attendance, last_write, dirty, overwritten, records,
                   pc, endpoint>>

Receive(p) ==
    /\ pc[p] = "idle"
    /\ SeedIdle
    /\ reqCount < MaxRequests
    /\ reqCount' = reqCount + 1
    /\ read_failed' = [read_failed EXCEPT ![p] = FALSE]
    /\ UNCHANGED cycle_result

mark_attendance(p, n) ==
    /\ Receive(p)
    /\ \E recs \in MarkInputs(n) :
         LET data_to_upsert ==
                 {[student_id |-> r.student_id, date |-> Today,
                   status |-> r.status] : r \in recs}
         IN  \/ Upserted(p, "mark_attendance", data_to_upsert)
             \/ UpsertFailed(p)
    /\ UNCHANGED <<students, attendance_summary_df, students_df,
                   event_snapshot, seedVars, pureVars>>

update_historical_attendance(p, n) ==
    /\ Receive(p)
    /\ \E recs \in HistoricalInputs(n) :
         IF recs = {}
         THEN /\ response' = [response EXCEPT ![p] = Error400]
              /\ UNCHANGED <<daily_attendance, last_write, dirty, overwritten,
                             records, pc, endpoint>>
         ELSE \/ Upserted(p, "update_historical_attendance", recs)
              \/ UpsertFailed(p)
    /\ UNCHANGED <<students, attendance_summary_df, students_df,
                   event_snapshot, seedVars, pureVars>>

\* update_student_profiles returns v; the handler goes on to its response.
Returns(p, v) ==
    /\ cycle_result' = [cycle_result EXCEPT ![p] = v]
    /\ pc' = [pc EXCEPT ![p] = "respond"]

\* app.py:93 and 74-81: the cycle reads the event rows and aggregates them.
ReadEvents(p) ==
    /\ pc[p] = "read_events"
    /\ \/ /\ attendance_summary_df' =
                [attendance_summary_df EXCEPT
                    ![p] = calculate_overall_attendance(daily_attendance)]
          /\ event_snapshot' = [event_snapshot EXCEPT ![p] = daily_attendance]
          /\ pc' = [pc EXCEPT ![p] = "read_profiles"]
          /\ UNCHANGED <<cycle_result, read_failed>>
       \/ /\ Returns(p, "False")
          /\ read_failed' = [read_failed EXCEPT ![p] = TRUE]
          /\ UNCHANGED <<attendance_summary_df, event_snapshot>>
    /\ UNCHANGED <<storeVars, endpoint, records, students_df, response,
                   reqCount, overwritten, dirty, seedVars, pureVars>>

\* app.py:94-105: the cycle reads the profiles and builds its candidates.
ReadProfiles(p) ==
    /\ pc[p] = "read_profiles"
    /\ \/ /\ DOMAIN students # {}
          /\ ~RiskRaises(MergeSummary(students, attendance_summary_df[p]))
          /\ students_df' =
                [students_df EXCEPT
                    ![p] = Classified(students, attendance_summary_df[p])]
          /\ pc' = [pc EXCEPT ![p] = "upsert_profiles"]
          /\ UNCHANGED <<cycle_result, read_failed>>
       \/ /\ \/ DOMAIN students = {}
             \/ RiskRaises(MergeSummary(students, attendance_summary_df[p]))
          /\ Returns(p, "False")
          /\ UNCHANGED <<students_df, read_failed>>
       \/ /\ Returns(p, "False")
          /\ read_failed' = [read_failed EXCEPT ![p] = TRUE]
          /\ UNCHANGED students_df
    /\ UNCHANGED <<storeVars, endpoint, records, attendance_summary_df,
                   response, reqCount, event_snapshot, overwritten, dirty,
                   seedVars, pureVars>>

\* app.py:107-112: the single upsert of the cycle.
UpsertProfiles(p) ==
    /\ pc[p] = "upsert_profiles"
    /\ \/ /\ students' = Upload(students, students_df[p])
          /\ dirty' = FALSE
          /\ Returns(p, "True")
       \/ /\ Returns(p, "False")
          /\ UNCHANGED <<students, dirty>>
    /\ UNCHANGED <<daily_attendance, last_write, endpoint, records,
                   attendance_summary_df, students_df, response, reqCount,
                   event_snapshot, overwritten, read_failed, seedVars, pureVars>>

\* app.py:181 and 194: the response after the cycle, whatever it returned.
Respond(p) ==
    /\ pc[p] = "respond"
    /\ response' = [response EXCEPT ![p] = Success]
    /\ pc' = [pc EXCEPT ![p] = "idle"]
    /\ records' = [records EXCEPT ![p] = {}]
    /\ attendance_summary_df' = [attendance_summary_df EXCEPT ![p] = {}]
    /\ students_df' = [students_df EXCEPT ![p] = << >>]
    /\ event_snapshot' = [event_snapshot EXCEPT ![p] = EmptyBag]
    /\ overwritten' = [overwritten EXCEPT ![p] = {}]
    /\ endpoint' = [endpoint EXCEPT ![p] = "none"]
    /\ cycle_result' = [cycle_result EXCEPT ![p] = "none"]
    /\ UNCHANGED <<storeVars, reqCount, read_failed, dirty, seedVars, pureVars>>

\* Another client of the store edits a profile's mentor_email.
ExternalEdit ==
    /\ SeedIdle
    /\ Cardinality({s \in DOMAIN students :
                        students[s].mentor_email # "a@x.com"}) < MaxEdits
    /\ \E s \in DOMAIN students :
         /\ students[s].mentor_email = "a@x.com"
         /\ students' = [students EXCEPT ![s].mentor_email = "b@x.com"]
    /\ dirty' = TRUE
    /\ UNCHANGED <<daily_attendance, last_write, reqVars, seedVars, pureVars>>

Serve(p, n) ==
    \/ mark_attendance(p, n)
    \/ update_historical_attendance(p, n)
    \/ ReadEvents(p)
    \/ ReadProfiles(p)
    \/ UpsertProfiles(p)
    \/ Respond(p)

LiveScores ==
    {{[student_id |-> 1, average_score |-> 85, exam_attempts |-> 1,
       fee_status |-> "Paid"],
      [student_id |-> 2, average_score |-> 40, exam_attempts |-> 1,
       fee_status |-> "Overdue"]}}

\* A historical file without a repeated key.
Loadable(sq) == ~InsertViolates(EmptyBag, sq)

LiveInputs ==
    {f \in [historical : HistFiles(MaxLiveHist), base : {BaseFile("a@x.com")},
            scores : LiveScores] : Loadable(f.historical)}

\* The state in which the app starts to serve: app.py:243 has run
\* run_initial_setup on the local files f, and no store call failed.
Seeded(f) ==
    /\ daily_attendance = InsertEvents(DeleteEvents(EmptyBag), f.historical)
    /\ last_write = LogWrites(NothingWritten, Range(f.historical))
    /\ students = Upsert(<< >>, SetupFrame(f))
    /\ seed_pc = "done"
    /\ seed_path = "run_initial_setup"
    /\ files = f
    /\ seed_i = ChunkSize
    /\ seed_model = NoModel
    /\ seedCount = 1

Init == (\E f \in LiveInputs : Seeded(f)) /\ NoRequests /\ PureIdle

Next ==
    \/ \E p \in Procs : Serve(p, MaxLiveBatch)
    \/ ExternalEdit

Spec == Init /\ [][Next]_vars

----------------------------------------------------------------------------
(* Properties of the recompute cycle under concurrent requests (Spec)      *)

CyclePcs == {"read_events", "read_profiles", "upsert_profiles"}

\* Worker p takes a step of its recompute cycle.
CycleStep(p) == pc[p] \in CyclePcs /\ pc'[p] # pc[p]

FrameColumns == Columns \ {"attendance_percentage", "risk_level"}

\* C2: a step of a recompute cycle changes no column of a stored profile
\* other than attendance_percentage and risk_level, whatever another
\* writer did to the profile since the cycle read it.
FrameKept ==
    [][\A p \in Procs :
          CycleStep(p) =>
              \A s \in DOMAIN students :
                  /\ s \in DOMAIN students'
                  /\ \A c \in FrameColumns : students'[s][c] = students[s][c]]_vars

\* The only request so far has upserted its candidates; the mentor_email
\* of a profile was edited after the cycle read it and before the upsert.
FrameKeptWitness ==
    \E p \in Procs, s \in DOMAIN students :
        /\ reqCount = 1
        /\ pc[p] = "respond"
        /\ cycle_result[p] = "True"
        /\ ~dirty
        /\ students_df[p][s].mentor_email = "a@x.com"
        /\ students[s].mentor_email = "b@x.com"

Pair(r) == <<r.attendance_percentage, r.risk_level>>

\* The candidate row r is what the table holds for its student.
Applied(tbl, r) ==
    /\ r.student_id \in DOMAIN tbl
    /\ Pair(tbl[r.student_id]) = Pair(r)

\* C6: a step of a recompute cycle, failed or not, either leaves the
\* profile store as it is or applies every candidate row of the cycle.
AllOrNothing ==
    [][\A p \in Procs :
          CycleStep(p) =>
              \/ students' = students
              \/ \A s \in DOMAIN students_df[p] :
                    Applied(students', students_df[p][s])]_vars

\* One cycle failed and wrote nothing; the other one changed the rows of
\* both students in its single upsert.
AllOrNothingWitness ==
    \E p \in Procs, q \in Procs :
        /\ files.historical = << >>
        /\ pc[q] = "respond" /\ cycle_result[q] = "False"
        /\ pc[p] = "respond" /\ cycle_result[p] = "True"
        /\ \A s \in Students :
              /\ s \in DOMAIN students
              /\ students[s].attendance_percentage = 100

\* C8: whenever the (attendance_percentage, risk_level) pair of a stored
\* profile changes, the new pair is that of one candidate row of the one
\* cycle that upserts in this step.
PairFromOneCycle ==
    [][\A s \in DOMAIN students :
          (s \in DOMAIN students' /\ Pair(students'[s]) # Pair(students[s])) =>
              \E p \in Procs :
                  /\ pc[p] = "upsert_profiles" /\ pc'[p] = "respond"
                  /\ s \in DOMAIN students_df[p]
                  /\ Pair(students'[s]) = Pair(students_df[p][s])]_vars

\* Two cycles hold candidates for the same student that differ in both
\* columns; one has upserted, the other is about to.
PairFromOneCycleWitness ==
    \E p \in Procs, q \in Procs, s \in DOMAIN students :
        /\ pc[p] = "respond" /\ cycle_result[p] = "True"
        /\ pc[q] = "upsert_profiles"
        /\ students_df[p][s].attendance_percentage
              # students_df[q][s].attendance_percentage
        /\ students_df[p][s].risk_level # students_df[q][s].risk_level
        /\ Pair(students[s]) = Pair(students_df[p][s])

SnapshotTaken(p) == pc[p] \in {"read_profiles", "upsert_profiles"}

\* C7 as claimed: the event snapshot a request's cycle read always
\* contains the request's own attendance records.
OwnRecordsInSnapshot ==
    \A p \in Procs :
        SnapshotTaken(p) => records[p] \subseteq BagToSet(event_snapshot[p])

\* C7, amended: the cycle runs only after the request's upsert and the
\* response comes only after the cycle returned; the snapshot holds an
\* event for every (student_id, date) the request wrote, and it is the
\* request's own record unless another request wrote the same pair
\* between this request's upsert and its cycle's read.
WriteThenCycleThenRespond ==
    \A p \in Procs :
        /\ pc[p] \in CyclePcs =>
              \A r \in records[p] :
                  \E e \in BagToSet(daily_attendance) : Key(e) = Key(r)
        /\ pc[p] = "respond" => cycle_result[p] \in {"True", "False"}
        /\ pc[p] \in CyclePcs => cycle_result[p] = "none"
        /\ SnapshotTaken(p) =>
              \A r \in records[p] :
                  /\ \E e \in BagToSet(event_snapshot[p]) : Key(e) = Key(r)
                  /\ r \in BagToSet(event_snapshot[p]) \/ Key(r) \in overwritten[p]

\* A cycle read its snapshot after another request replaced the record
\* its own request had written.
WriteThenCycleWitness ==
    \E p \in Procs :
        /\ SnapshotTaken(p)
        /\ \E r \in records[p] :
              r \notin BagToSet(event_snapshot[p]) /\ Key(r) \in overwritten[p]

\* C9: when a store read of the cycle failed, no profile is written and
\* the endpoint answers with status error, HTTP 500.
ReadFailureReported ==
    \A p \in Procs :
        read_failed[p] =>
            /\ cycle_result[p] # "True"
            /\ (pc[p] = "idle" => response[p] = Error500)

----------------------------------------------------------------------------
(* Specification SpecRisk: calculate_risk applied to every feature vector  *)

FeatureRows ==
    [attendance_percentage : 0..MaxPct,
     average_score : 0..MaxScore,
     exam_attempts : 0..MaxAttempts]

InitRisk ==
    /\ row \in FeatureRows
    /\ risk_out = NoRisk
    /\ summary_out = {}
    /\ MlIdle
    /\ EmptyStores
    /\ NoSeed
    /\ NoRequests

ApplyRisk ==
    /\ risk_out = NoRisk
    /\ risk_out' = calculate_risk(row)
    /\ UNCHANGED <<storeVars, reqVars, dirty, seedVars, row, summary_out, mlVars>>

SpecRisk == InitRisk /\ [][ApplyRisk]_vars

\* C1: calculate_risk returns High when attendance < 70 and score < 50,
\* otherwise Medium when attendance < 75 or score < 60 or attempts > 3,
\* otherwise Low; (65,40,*) is High, (65,80,1) Medium, (90,90,1) Low and
\* (0,60,2) Medium.
RiskRule ==
    risk_out # NoRisk =>
        /\ (row.attendance_percentage < 70 /\ row.average_score < 50)
              => risk_out = "High"
        /\ (~(row.attendance_percentage < 70 /\ row.average_score < 50)
              /\ (row.attendance_percentage < 75 \/ row.average_score < 60
                    \/ row.exam_attempts > 3))
              => risk_out = "Medium"
        /\ (row.attendance_percentage >= 75 /\ row.average_score >= 60
              /\ row.exam_attempts <= 3)
              => risk_out = "Low"
        /\ (row.attendance_percentage = 65 /\ row.average_score = 40)
              => risk_out = "High"
        /\ (row.attendance_percentage = 65 /\ row.average_score = 80
              /\ row.exam_attempts = 1) => risk_out = "Medium"
        /\ (row.attendance_percentage = 90 /\ row.average_score = 90
              /\ row.exam_attempts = 1) => risk_out = "Low"
        /\ (row.attendance_percentage = 0 /\ row.average_score = 60
              /\ row.exam_attempts = 2) => risk_out = "Medium"

\* The precedence case has been classified: both High conditions and a
\* Medium condition are true of the row.
RiskRuleWitness ==
    /\ risk_out = "High"
    /\ row.attendance_percentage = 65
    /\ row.average_score = 40
    /\ row.exam_attempts = 4

----------------------------------------------------------------------------
(* Specification SpecAgg: the aggregator applied to event sets             *)

\* t events of student s, the first p of them Present.
EventsOf(s, p, t) ==
    {[student_id |-> s, date |-> d,
      status |-> IF d <= p THEN "Present"
                 ELSE IF d % 2 = 0 THEN "Absent" ELSE "Late"] : d \in 1..t}

InitAgg ==
    /\ \E t1 \in 0..AggMaxEvents, t2 \in 0..AggMaxEvents :
         \E p1 \in 0..t1, p2 \in 0..t2 :
            daily_attendance = SetToBag(EventsOf(1, p1, t1) \cup EventsOf(2, p2, t2))
    /\ summary_out = {[student_id |-> 0, attendance_percentage |-> 0]}
    /\ students = << >>
    /\ last_write = NothingWritten
    /\ row = [attendance_percentage |-> 0, average_score |-> 0, exam_attempts |-> 0]
    /\ risk_out = NoRisk
    /\ MlIdle
    /\ NoSeed
    /\ NoRequests

Aggregated == summary_out # {[student_id |-> 0, attendance_percentage |-> 0]}

ApplyAggregate ==
    /\ ~Aggregated
    /\ summary_out' = calculate_overall_attendance(daily_attendance)
    /\ UNCHANGED <<storeVars, reqVars, dirty, seedVars, row, risk_out, mlVars>>

SpecAgg == InitAgg /\ [][ApplyAggregate]_vars

EventsFor(s) == {e \in BagToSet(daily_attendance) : e.student_id = s}
PresentFor(s) == {e \in EventsFor(s) : e.status = "Present"}

\* C4: the aggregator returns exactly one row per student with at least one
\* event, none for a student without events, and the row's percentage is
\* within 0..100 and is round(100 * present / total): the nearest integer,
\* the even one on a tie.
AggregatorRows ==
    Aggregated =>
        \A s \in Students :
            LET rows == {r \in summary_out : r.student_id = s}
                t == Cardinality(EventsFor(s))
                p == Cardinality(PresentFor(s))
            IN  /\ (t = 0) => rows = {}
                /\ (t > 0) =>
                     /\ Cardinality(rows) = 1
                     /\ \A r \in rows :
                          LET a == r.attendance_percentage
                          IN  /\ a \in 0..100
                              /\ 2 * (100 * p - a * t) <= t
                              /\ 2 * (a * t - 100 * p) <= t
                              /\ (2 * (100 * p - a * t) = t
                                    \/ 2 * (a * t - 100 * p) = t) => a % 2 = 0

\* An aggregation with a tie (5 of 8 present, 62.5) for one student and no
\* event for the other.
AggregatorWitness ==
    /\ Aggregated
    /\ Cardinality(EventsFor(1)) = 8 /\ Cardinality(PresentFor(1)) = 5
    /\ EventsFor(2) = {}
    /\ summary_out = {[student_id |-> 1, attendance_percentage |-> 62]}

----------------------------------------------------------------------------
(* Specification SpecSeq: a seed run and the requests of a single worker,  *)
(* one after the other                                                     *)

SeqInputs ==
    [historical : HistFiles(MaxSeqHist), base : {BaseFile("a@x.com")},
     scores : LiveScores]

NextSeq ==
    \/ StartSeed(SeqInputs)
    \/ SeedStep
    \/ Serve(1, MaxBatch)

SpecSeq == InitSeed /\ [][NextSeq]_vars

\* The copies of rows with key k in the attendance store.
CopiesOfKey(k) ==
    BagCardinality([e \in {x \in BagToSet(daily_attendance) : Key(x) = k}
                       |-> CopiesIn(e, daily_attendance)])

\* C10: the attendance store holds at most one event per (student_id,
\* date), and its status is that of the latest write for the pair.
OneEventPerKey ==
    \A k \in Keys :
        /\ CopiesOfKey(k) <= 1
        /\ (last_write[k] = NoStatus) => CopiesOfKey(k) = 0
        /\ (last_write[k] # NoStatus) =>
              CopiesIn([student_id |-> k[1], date |-> k[2],
                        status |-> last_write[k]], daily_attendance) = 1

\* The seed upload wrote Present for a pair and a later request replaced
\* it by Absent.
OneEventPerKeyWitness ==
    /\ seed_pc = "done"
    /\ Len(files.historical) > 0
    /\ files.historical[1] = [student_id |-> 1, date |-> 1, status |-> "Present"]
    /\ pc[1] = "read_events"
    /\ endpoint[1] = "update_historical_attendance"
    /\ [student_id |-> 1, date |-> 1, status |-> "Absent"] \in records[1]
    /\ last_write[<<1, 1>>] = "Absent"

\* C3: once a cycle has upserted, a further run of the cycle with no
\* change of either store in between leaves the profile store as it is.
Idempotent == [][(~dirty /\ ~dirty') => students' = students]_vars

\* A second cycle has reached its upsert, nothing changed in either store
\* since the upsert of the first, which had moved the percentage off its
\* seeded value.
IdempotentWitness ==
    /\ reqCount = 2
    /\ pc[1] = "upsert_profiles"
    /\ ~dirty
    /\ files.historical = << >>
    /\ 1 \in DOMAIN students
    /\ students[1].attendance_percentage = 100
    /\ students[1].risk_level = "Low"

\* Worker p is back from a recompute cycle that returned True.
CycleSucceeded(p) == pc[p] = "respond" /\ cycle_result[p] = "True"

\* C11: after a recompute cycle that completed successfully, the
\* risk_level of every stored profile is Low, Medium or High and is the
\* rule applied to the profile's stored attendance_percentage,
\* average_score and exam_attempts, whatever risk_level it held before.
RiskIsRuleAfterCycle ==
    \A p \in Procs :
        CycleSucceeded(p) =>
            \A s \in DOMAIN students :
                /\ students[s].risk_level \in {"Low", "Medium", "High"}
                /\ students[s].risk_level = calculate_risk(students[s])

\* The desktop tool seeded the profiles with predictions of a model that
\* cannot predict High, so student 2 held Low or Medium; a cycle has then
\* completed and the profile holds High, as the rule says.
RiskIsRuleWitness ==
    /\ seed_path = "run_setup_process"
    /\ seed_pc = "done"
    /\ seed_model.labels # {}
    /\ "High" \notin seed_model.labels
    /\ CycleSucceeded(1)
    /\ 2 \in DOMAIN students
    /\ students[2].risk_level = "High"

----------------------------------------------------------------------------
(* Specification SpecReseed: a seeded store, a further seed run and the    *)
(* requests of a single worker, one after the other                        *)

ReseedInputs == {f \in SeqInputs : Loadable(f.historical)}

InitReseed == (\E f \in ReseedInputs : Seeded(f)) /\ NoRequests /\ PureIdle

NextReseed ==
    \/ BeginSeed(SeqInputs, MaxReseeds)
    \/ SeedStep
    \/ Serve(1, MaxLiveBatch)

SpecReseed == InitReseed /\ [][NextReseed]_vars

\* C12: after a recompute cycle that completed successfully, every stored
\* profile whose student has no attendance event has attendance_percentage
\* 0, also when the event set is empty and the profile held a non-zero
\* percentage before the cycle.
NoEventMeansZero ==
    \A p \in Procs :
        CycleSucceeded(p) =>
            \A s \in DOMAIN students :
                EventsFor(s) = {} => students[s].attendance_percentage = 0

----------------------------------------------------------------------------
(* Specification SpecMl: ml_model.load_model_and_predict and the           *)
(* ml_model.train_and_save_model it falls back to                          *)

ModelFile == "risk_model.joblib"
EncoderFile == "fee_status_encoder.joblib"
HistoryCsv == "data/historical_attendance.csv"
ScoresCsv == "data/scores.csv"
MlFiles == {ModelFile, EncoderFile, HistoryCsv, ScoresCsv}

\* pd.merge(scores_df, attendance_summary, on='student_id'): the score rows
\* of the students that have events.
MlTrainingData(t) ==
    {sc \in t.scores : sc.student_id \in GroupKeys(BagOfSeq(t.historical))}

\* The rule on the unrounded percentage present / total * 100.
create_target_label(sc, p, t) ==
    IF 100 * p < 70 * t /\ sc.average_score < 50 THEN "High"
    ELSE IF 100 * p < 75 * t \/ sc.average_score < 60 \/ sc.exam_attempts > 3
         THEN "Medium"
    ELSE "Low"

\* train_test_split(test_size=0.2): ceil(0.2 * n) rows are held out.
TrainSize(n) == n - ((n + 4) \div 5)

\* train_test_split raises ValueError when the train set would be empty.
MlTrainRaises(t) == TrainSize(Cardinality(MlTrainingData(t))) < 1

\* The artifacts a training run on t can dump: the encoder is fitted on
\* every training row, the tree on the rows the shuffle leaves in X_train.
FittedModels(t) ==
    LET B == BagOfSeq(t.historical)
        rows == MlTrainingData(t)
    IN  {[labels |-> {create_target_label(sc, PresentOf(B, sc.student_id),
                                          TotalOf(B, sc.student_id)) : sc \in X},
          classes |-> {sc.fee_status : sc \in rows}] :
            X \in {Y \in SUBSET rows :
                      Cardinality(Y) = TrainSize(Cardinality(rows))}}

MlHistories ==
    {HistRows(1, p1, t1) \o HistRows(2, p2, t2) :
        <<p1, t1, p2, t2>> \in
            {x \in (0..MaxMlEvents) \X (0..MaxMlEvents) \X (0..MaxMlEvents)
                     \X (0..MaxMlEvents) : x[1] <= x[2] /\ x[3] <= x[4]}}

MlTrainingFiles == [historical : MlHistories, scores : ScoreFiles]

\* The artifacts an earlier training run may have left on disk.
EarlierModels ==
    UNION {FittedModels(t) : t \in {x \in MlTrainingFiles : ~MlTrainRaises(x)}}

MlRows ==
    {[attendance_percentage |-> 80, average_score |-> r.average_score,
      exam_attempts |-> r.exam_attempts, fee_status |-> r.fee_status]
        : r \in ScoreRows}

MlInputs == UNION {[1..n -> MlRows] : n \in 0..MaxMlRows}

InitMl ==
    /\ on_disk \in SUBSET MlFiles
    /\ saved_model \in (IF {ModelFile, EncoderFile} \cap on_disk = {}
                        THEN {NoModel} ELSE EarlierModels)
    /\ training \in
          [historical : IF HistoryCsv \in on_disk THEN MlHistories ELSE {<< >>},
           scores : IF ScoresCsv \in on_disk THEN ScoreFiles ELSE {{}}]
    /\ student_data_df \in MlInputs
    /\ ml_pc = "load"
    /\ train_result = "not called"
    /\ predictions = << >>
    /\ ml_error = "none"
    /\ row = [attendance_percentage |-> 0, average_score |-> 0, exam_attempts |-> 0]
    /\ risk_out = NoRisk
    /\ summary_out = {}
    /\ EmptyStores
    /\ NoSeed
    /\ NoRequests

NotMl == <<storeVars, reqVars, dirty, seedVars, row, risk_out, summary_out>>

ArtifactsOnDisk == {ModelFile, EncoderFile} \subseteq on_disk

\* ml_model.py:61-65: joblib.load of the two artifacts.
MlLoad ==
    /\ ml_pc = "load"
    /\ ml_pc' = IF ArtifactsOnDisk THEN "predict" ELSE "train"
    /\ UNCHANGED <<on_disk, saved_model, training, student_data_df,
                   train_result, predictions, ml_error, NotMl>>

\* ml_model.py:66 and 7-55: training on demand.
train_and_save_model ==
    /\ ml_pc = "train"
    /\ IF ~({HistoryCsv, ScoresCsv} \subseteq on_disk)
       THEN /\ train_result' = "None"
            /\ ml_pc' = "reload"
            /\ UNCHANGED <<on_disk, saved_model, ml_error>>
       ELSE IF MlTrainRaises(training)
       THEN /\ ml_error' = "ValueError"
            /\ ml_pc' = "done"
            /\ train_result' = "raised"
            /\ UNCHANGED <<on_disk, saved_model>>
       ELSE /\ saved_model' \in FittedModels(training)
            /\ on_disk' = on_disk \cup {ModelFile, EncoderFile}
            /\ train_result' = ModelFile
            /\ ml_pc' = "reload"
            /\ UNCHANGED ml_error
    /\ UNCHANGED <<training, student_data_df, predictions, NotMl>>

\* ml_model.py:67-68: the second joblib.load, outside any try.
MlReload ==
    /\ ml_pc = "reload"
    /\ IF ArtifactsOnDisk
       THEN ml_pc' = "predict" /\ UNCHANGED ml_error
       ELSE ml_pc' = "done" /\ ml_error' = "FileNotFoundError"
    /\ UNCHANGED <<on_disk, saved_model, training, student_data_df,
                   train_result, predictions, NotMl>>

\* encoder.transform raises on a fee_status the encoder was not fitted on;
\* model.predict raises on a frame without rows.
PredictRaises(df, m) ==
    \/ \E i \in DOMAIN df : df[i].fee_status \notin m.classes
    \/ df = << >>

\* ml_model.py:70-75
MlPredict ==
    /\ ml_pc = "predict"
    /\ ml_pc' = "done"
    /\ IF PredictRaises(student_data_df, saved_model)
       THEN ml_error' = "ValueError" /\ UNCHANGED predictions
       ELSE /\ predictions' \in [DOMAIN student_data_df -> saved_model.labels]
            /\ UNCHANGED ml_error
    /\ UNCHANGED <<on_disk, saved_model, training, student_data_df,
                   train_result, NotMl>>

load_model_and_predict == MlLoad \/ train_and_save_model \/ MlReload \/ MlPredict

SpecMl == InitMl /\ [][load_model_and_predict]_vars

\* C13: load_model_and_predict does not fail on a missing artifact: when
\* it found an artifact missing it trains on demand, does not end in
\* FileNotFoundError, and what it returns is one prediction per input row,
\* also when train_and_save_model returned None.
NoFailureOnMissingArtifact ==
    (ml_pc = "done" /\ train_result # "not called") =>
        /\ ml_error # "FileNotFoundError"
        /\ ml_error = "none" => Len(predictions) = Len(student_data_df)

----------------------------------------------------------------------------
(* The stored percentage on the seed paths (SpecSeed)                      *)

\* C14: the attendance_percentage stored for a student with events is
\* round(100 * present / total), the nearest integer and not the truncated
\* ratio, on the seed paths as on the live path, so that the paths store
\* the same value for the same event set.
StoredPercentageRounded ==
    seed_pc = "done" =>
        \A s \in DOMAIN students :
            LET B == BagOfSeq(files.historical)
                t == TotalOf(B, s)
                p == PresentOf(B, s)
                a == students[s].attendance_percentage
            IN  t > 0 =>
                   /\ 2 * (100 * p - a * t) <= t
                   /\ 2 * (a * t - 100 * p) <= t
                   /\ a = RowFor(calculate_overall_attendance(B), s).attendance_percentage

----------------------------------------------------------------------------
(* Racing cycles (Spec)                                                    *)

\* Worker p upserts its candidates in this step and the store accepts them.
UpsertsNow(p) == pc[p] = "upsert_profiles" /\ cycle_result'[p] = "True"

\* C15: the upsert of a cycle is never refused or merged because of what
\* was written since the cycle read: it installs the cycle's
\* attendance_percentage and risk_level for every profile it read, and no
\* other step of a request changes them; so after two overlapping requests
\* the stored values are those of the cycle that upserted last.
LastUpsertWins ==
    [][/\ \A p \in Procs :
            UpsertsNow(p) =>
                \A s \in DOMAIN students_df[p] :
                    /\ s \in DOMAIN students'
                    /\ Pair(students'[s]) = Pair(students_df[p][s])
       /\ (\A p \in Procs : ~UpsertsNow(p)) =>
            \A s \in DOMAIN students :
                s \in DOMAIN students' /\ Pair(students'[s]) = Pair(students[s])]_vars

\* Both cycles have upserted.  The cycle of p had read its event snapshot
\* before the request of q wrote its record and upserted last: the store
\* holds p's percentage, which is neither q's nor the aggregate of the
\* events now stored.
LastUpsertWinsWitness ==
    \E p \in Procs, q \in Procs, s \in DOMAIN students :
        /\ p # q
        /\ CycleSucceeded(p) /\ CycleSucceeded(q)
        /\ \E r \in records[q] :
              /\ r.student_id = s
              /\ \A e \in BagToSet(event_snapshot[p]) : Key(e) # Key(r)
              /\ r \in BagToSet(event_snapshot[q])
        /\ students[s].attendance_percentage
              = students_df[p][s].attendance_percentage
        /\ students[s].attendance_percentage
              # students_df[q][s].attendance_percentage
        /\ students[s].attendance_percentage
              # MergedAttendance(calculate_overall_attendance(daily_attendance), s)

====
